---- MODULE Spec2Model ----
(***************************************************************************)
(* Model of src/ahu/Ahu.py: class Ahu with its two batch procedures,       *)
(* fetch_data (paginated ingestion into the staging collection) and        *)
(* copy_data (normalisation of the staged documents into the destination   *)
(* collection).                                                            *)
(*                                                                         *)
(* Documents are functions from field names to values; an absent field is  *)
(* a name outside the DOMAIN.  Text that the code only copies is a TLA+    *)
(* string; an author's full_name, which the code splits and re-assembles,  *)
(* is a sequence of one-character strings.                                 *)
(***************************************************************************)
EXTENDS Integers, Sequences, FiniteSets, TLC

VARIABLES
    original_collection,   \* the staging collection, in insertion order
    filtered_collection,   \* the destination collection, in insertion order
    pc,                    \* "idle", or the position inside the running method
    page,                  \* fetch_data: the local page
    aff,                   \* fetch_data: the decoded response of the last request
    requested,             \* fetch_data: the requests issued by the current/last run
    fetch_status,          \* how the last fetch_data run ended
    cursor,                \* copy_data: position of the find() cursor
    documents_to_insert,   \* copy_data: the local list documents_to_insert
    copy_status,           \* how the last copy_data run ended
    calls                  \* number of method invocations so far

vars == <<original_collection, filtered_collection, pc, page, aff, requested,
          fetch_status, cursor, documents_to_insert, copy_status, calls>>

-----------------------------------------------------------------------------
(* Bounds of the model *)

MaxCalls == 3      \* method invocations in one behaviour
MaxData == 2       \* records in the data of one page
MaxAuthors == 4    \* entries in the authors of one staged document

(* Program constants *)

max_results == 100
AuthorLimit == 3

-----------------------------------------------------------------------------
(* Python dict helpers *)

EmptyDict == [k \in {} |-> ""]

Has(d, k) == k \in DOMAIN d

Get(d, k, default) == IF k \in DOMAIN d THEN d[k] ELSE default

Without(d, k) == [x \in DOMAIN d \ {k} |-> d[x]]

With(d, k, v) == [x \in DOMAIN d \cup {k} |-> IF x = k THEN v ELSE d[x]]

\* A value that is not a dict where the code expects one (a str, say).
NotADict == [py_type |-> "str"]

IsDict(v) == ~("py_type" \in DOMAIN v)

-----------------------------------------------------------------------------
(* Text as sequences of characters *)

SP == <<" ">>
Jane == <<"J", "a", "n", "e">>
Ann == <<"A", "n", "n">>
Doe == <<"D", "o", "e">>
John == <<"J", "o", "h", "n">>
Smith == <<"S", "m", "i", "t", "h">>
Lee == <<"L", "e", "e">>
JaneAnnDoe == Jane \o SP \o Ann \o SP \o Doe
JohnSmith == John \o SP \o Smith
AnnLee == Ann \o SP \o Lee
PaddedDoe == SP \o Doe \o SP
SpacedName == <<"A", "l", " ", " ", "B", "\t", "C", "y">>

IsSpace(c) == c \in {" ", "\t", "\n"}


\* str.split() without arguments: the maximal runs of non-whitespace characters.
RECURSIVE SplitAcc(_, _, _)
SplitAcc(s, cur, out) ==
    IF s = <<>>
    THEN IF cur = <<>> THEN out ELSE Append(out, cur)
    ELSE IF IsSpace(Head(s))
         THEN SplitAcc(Tail(s), <<>>, IF cur = <<>> THEN out ELSE Append(out, cur))
         ELSE SplitAcc(Tail(s), Append(cur, Head(s)), out)

Split(s) == SplitAcc(s, <<>>, <<>>)

\* sep.join(parts)
RECURSIVE Join(_, _)
Join(parts, sep) ==
    IF parts = <<>> THEN <<>>
    ELSE IF Len(parts) = 1 THEN parts[1]
    ELSE parts[1] \o sep \o Join(Tail(parts), sep)

\* "".join([name[0] for name in name_parts])
RECURSIVE Initials(_)
Initials(name_parts) ==
    IF name_parts = <<>> THEN <<>>
    ELSE <<name_parts[1][1]>> \o Initials(Tail(name_parts))

-----------------------------------------------------------------------------
(* fetch_data: the filter and the tag *)

\* Variant of HasScholar that looks at the first external id only.
HasScholarFirstOnly(entry) ==
    LET ids == Get(entry, "external_ids", <<>>)
    IN  ids # <<>> /\ Get(ids[1], "source", "None") = "scholar"

\* any(source.get("source") == "scholar" for source in entry.get("external_ids", []))
HasScholar(entry) ==
    \E i \in DOMAIN Get(entry, "external_ids", <<>>) :
        Get(Get(entry, "external_ids", <<>>)[i], "source", "None") = "scholar"

\* Variant of MarkNoAbstract that leaves the entry as it came.
MarkNothing(entry) == entry

\* entry["keep_abstract"] = False
MarkNoAbstract(entry) == With(entry, "keep_abstract", FALSE)

\* The for loop over aff["data"]: the documents insert_one is called with, in order.
RECURSIVE Selected(_)
Selected(data) ==
    IF data = <<>> THEN <<>>
    ELSE IF ~HasScholar(Head(data))
         THEN <<MarkNoAbstract(Head(data))>> \o Selected(Tail(data))
         ELSE Selected(Tail(data))

\* Variant of LastPage with a strict comparison.
LastPageStrict(p, total_results) == p * max_results > total_results

\* if page * self.max_results >= aff["total_results"]: break
LastPage(p, total_results) == p * max_results >= total_results

-----------------------------------------------------------------------------
(* copy_data: the derivation of one normalized document *)

\* Variant of Abstract that ignores keep_abstract.
AbstractKept(document) == Get(document, "abstract", "")

Abstract(document) ==
    LET abstract == Get(document, "abstract", "")
        keep_abstract == Get(document, "keep_abstract", TRUE)
    IN  IF ~keep_abstract THEN "" ELSE abstract

\* next((entry.get("name", "") for entry in source_name if "name" in entry), "")
RECURSIVE FirstNamed(_)
FirstNamed(source_name) ==
    IF source_name = <<>> THEN ""
    ELSE IF Has(Head(source_name), "name")
         THEN Get(Head(source_name), "name", "")
         ELSE FirstNamed(Tail(source_name))

\* Variant of Journal that takes the last entry with a name.
RECURSIVE LastNamed(_)
LastNamed(source_name) ==
    IF source_name = <<>> THEN ""
    ELSE IF Has(source_name[Len(source_name)], "name")
         THEN Get(source_name[Len(source_name)], "name", "")
         ELSE LastNamed(SubSeq(source_name, 1, Len(source_name) - 1))

JournalLast(document) ==
    LastNamed(Get(Get(document, "source", EmptyDict), "names", <<>>))

Journal(document) ==
    LET source_name == Get(Get(document, "source", EmptyDict), "names", <<>>)
    IN  FirstNamed(source_name)

\* The try block: AttributeError (publisher is no dict) gives "" for both.
PublisherInfo(document) ==
    LET source_info == Get(document, "source", EmptyDict)
    IN  IF IsDict(source_info) /\ Has(source_info, "publisher")
        THEN LET publisher_info == source_info["publisher"]
             IN  IF IsDict(publisher_info)
                 THEN [publisher |-> Get(publisher_info, "name", ""),
                       country |-> Get(publisher_info, "country_code", "")]
                 ELSE [publisher |-> "", country |-> ""]
        ELSE [publisher |-> "", country |-> ""]

FirstTitle(document) == Get(document, "titles", <<EmptyDict>>)[1]

FormatName(full_name) ==
    LET name_parts == Split(full_name)
    IN  IF Len(name_parts) > 1
        THEN Initials(SubSeq(name_parts, 1, Len(name_parts) - 1))
                 \o <<",", " ">> \o name_parts[Len(name_parts)]
        ELSE full_name

\* Variant of AuthorsList without the [:3].
AuthorsListAll(document) == Get(document, "authors", <<>>)

\* document.get("authors", [])[:3]
AuthorsList(document) ==
    LET authors == Get(document, "authors", <<>>)
    IN  SubSeq(authors, 1, IF Len(authors) < AuthorLimit THEN Len(authors) ELSE AuthorLimit)

Author(document) ==
    LET authors_list == AuthorsList(document)
        formatted_authors ==
            [i \in DOMAIN authors_list |->
                FormatName(Get(authors_list[i], "full_name", <<>>))]
    IN  Join(formatted_authors, <<" ", "a", "n", "d", " ">>)

Page(document) ==
    LET start_page == Get(document["bibliographic_info"], "start_page", "")
        end_page == Get(document["bibliographic_info"], "end_page", "")
    IN  IF start_page # "" /\ end_page # "" THEN start_page \o " - " \o end_page
        ELSE IF start_page # "" \/ end_page # "" THEN start_page \o end_page
        ELSE ""

\* The loop over document['external_ids']: each entry of the source overwrites
\* the value, so the last one wins.
RECURSIVE ScanIds(_, _, _)
ScanIds(external_ids, source, found) ==
    IF external_ids = <<>> THEN found
    ELSE ScanIds(Tail(external_ids), source,
                 IF Get(Head(external_ids), "source", "") = source
                 THEN Get(Head(external_ids), "id", "")
                 ELSE found)

\* The statements of the loop body that raise, none of them inside a try:
\*   line 118  .get on a source that is no dict            (AttributeError)
\*   line 135  [0] on an empty titles                      (IndexError)
\*   line 154  document['bibliographic_info'] when absent  (KeyError)
Raises(document) ==
    \/ Has(document, "source") /\ ~IsDict(document["source"])
    \/ Has(document, "titles") /\ document["titles"] = <<>>
    \/ ~Has(document, "bibliographic_info")

\* new_document, for a document on which the loop body does not raise
Normalize(document) ==
    [journal   |-> Journal(document),
     publisher |-> PublisherInfo(document).publisher,
     country   |-> PublisherInfo(document).country,
     title     |-> Get(FirstTitle(document), "title", ""),
     author    |-> Author(document),
     year      |-> Get(document, "year_published", ""),
     volume    |-> Get(document["bibliographic_info"], "volume", ""),
     issue     |-> Get(document["bibliographic_info"], "issue", ""),
     page      |-> Page(document),
     language  |-> Get(FirstTitle(document), "lang", ""),
     abstract  |-> Abstract(document),
     doi       |-> ScanIds(Get(document, "external_ids", <<>>), "doi", ""),
     pmid      |-> ScanIds(Get(document, "external_ids", <<>>), "pmid", "")]

-----------------------------------------------------------------------------
(* The documents of the model *)

Product ==
    [abstract |-> "An abstract",
     external_ids |-> <<[source |-> "doi", id |-> "10.1/x"],
                        [source |-> "pmid", id |-> "999"]>>,
     titles |-> <<[title |-> "A title", lang |-> "en"]>>,
     authors |-> <<[full_name |-> JaneAnnDoe]>>,
     source |-> [names |-> <<[name |-> "Nature"]>>,
                 publisher |-> [name |-> "Springer", country_code |-> "DE"]],
     bibliographic_info |-> [volume |-> "12", issue |-> "3",
                             start_page |-> "10", end_page |-> "20"],
     year_published |-> "2020"]

\* A product Google Scholar knows; the scholar identifier is not the first one.
ScholarRecord ==
    [Product EXCEPT !.external_ids = <<[id |-> "W1"],
                                       [source |-> "scholar", id |-> "S1"]>>]

\* A product with almost nothing in it: no external_ids, no bibliographic_info.
BareRecord == [abstract |-> "Bare", year_published |-> "1999"]

\* What the API serves.
SourceRecords == {Product, ScholarRecord, BareRecord}

RECURSIVE SeqsUpTo(_, _)
SeqsUpTo(S, n) ==
    IF n = 0 THEN {<<>>}
    ELSE LET shorter == SeqsUpTo(S, n - 1)
         IN  shorter \cup {Append(q, x) : q \in shorter, x \in S}

\* The data of one page
PageData == SeqsUpTo(SourceRecords, MaxData)

\* The total_results a response reports (it may drift between requests)
TotalResults == {50, 200, 250}

NoResponse == [data |-> <<>>, total_results |-> 0]

\* Staged documents that did not come through fetch_data
KeptProduct == With(Product, "keep_abstract", TRUE)

AuthorEntries ==
    {[full_name |-> JaneAnnDoe], [full_name |-> JohnSmith], [full_name |-> AnnLee],
     [full_name |-> PaddedDoe], [full_name |-> SpacedName], EmptyDict}

AuthorVariants ==
    {[Product EXCEPT !.authors = a] : a \in SeqsUpTo(AuthorEntries, MaxAuthors)}
    \cup {[Product EXCEPT !.authors = <<[full_name |-> n]>>] : n \in {Doe, <<>>}}

AbsenceVariants ==
    {Without(d, k) : d \in {Product, KeptProduct, MarkNoAbstract(Product)},
                     k \in {"abstract", "source", "titles", "authors",
                            "bibliographic_info", "external_ids", "year_published"}}

SourceVariants ==
    {[Product EXCEPT !.source = s] :
        s \in {EmptyDict,
               NotADict,
               [names |-> <<[name |-> "Nature"]>>],
               [publisher |-> [name |-> "Springer"]],
               [names |-> <<>>, publisher |-> NotADict],
               [names |-> <<[name |-> ""], [name |-> "Nature"]>>],
               [names |-> <<[lang |-> "en"], [name |-> "Nature"], [name |-> "Science"]>>],
               [names |-> <<[lang |-> "en"]>>],
               [names |-> <<[name |-> ""]>>]}}

OtherVariants ==
    {[Product EXCEPT !.titles = t] :
        t \in {<<>>, <<[lang |-> "es"]>>,
               <<[title |-> "Uno", lang |-> "es"], [title |-> "One", lang |-> "en"]>>}}
    \cup {[Product EXCEPT !.bibliographic_info = b] :
        b \in {EmptyDict, [start_page |-> "10", end_page |-> ""],
               [end_page |-> "20"], [volume |-> "12"]}}
    \cup {[Product EXCEPT !.external_ids = e] :
        e \in {<<>>,
               <<[source |-> "doi", id |-> "10.1/x"], [source |-> "doi", id |-> "10.2/y"]>>,
               <<[source |-> "pmid"], [id |-> "7"]>>}}

StagedDocs ==
    {Product, KeptProduct, MarkNoAbstract(Product), MarkNoAbstract(BareRecord)}
    \cup AuthorVariants \cup AbsenceVariants \cup SourceVariants \cup OtherVariants

PairDocs == {KeptProduct, MarkNoAbstract(Product), MarkNoAbstract(BareRecord)}

-----------------------------------------------------------------------------
(* Ahu.__init__ and what the collections hold when the methods are called *)

InitLocals ==
    /\ pc = "idle"
    /\ page = 0
    /\ aff = NoResponse
    /\ requested = <<>>
    /\ fetch_status = "none"
    /\ cursor = 0
    /\ documents_to_insert = <<>>
    /\ copy_status = "none"
    /\ calls = 0

Init ==
    /\ original_collection \in
           {<<>>, <<KeptProduct>>, <<Product>>, <<Without(KeptProduct, "abstract")>>}
    /\ filtered_collection = <<>>
    /\ InitLocals

InitCopy ==
    /\ original_collection \in
           {<<>>} \cup {<<d>> : d \in StagedDocs}
                  \cup {<<d, e>> : d \in PairDocs, e \in PairDocs}
    /\ filtered_collection = <<>>
    /\ InitLocals

-----------------------------------------------------------------------------
(* fetch_data *)

fetch_locals == <<page, aff, requested, fetch_status>>
copy_locals == <<cursor, documents_to_insert, copy_status>>

\* The call: page = 1.  The caller runs the ingestion once, before or after
\* the runs of copy_data.
FetchStart ==
    /\ pc = "idle"
    /\ fetch_status = "none"
    /\ calls < MaxCalls
    /\ calls' = calls + 1
    /\ pc' = "request"
    /\ page' = 1
    /\ aff' = NoResponse
    /\ requested' = <<>>
    /\ fetch_status' = "running"
    /\ UNCHANGED <<original_collection, filtered_collection, copy_locals>>

\* One request that succeeds, and the for loop over its data
FetchPage ==
    /\ pc = "request"
    /\ \E data \in PageData, total_results \in TotalResults :
          /\ requested' = Append(requested, [page |-> page, ok |-> TRUE,
                                             total_results |-> total_results])
          /\ aff' = [data |-> data, total_results |-> total_results]
          /\ original_collection' = original_collection \o Selected(data)
    /\ pc' = "check"
    /\ UNCHANGED <<filtered_collection, page, fetch_status, copy_locals, calls>>

\* Variant of FetchFail that asks for the same page again.
FetchFailRetry ==
    /\ pc = "request"
    /\ requested' = Append(requested, [page |-> page, ok |-> FALSE, total_results |-> 0])
    /\ Len(requested) < 4
    /\ UNCHANGED <<original_collection, filtered_collection, pc, page, aff,
                   fetch_status, copy_locals, calls>>

\* One request that raises RequestException: the except clause breaks
FetchFail ==
    /\ pc = "request"
    /\ requested' = Append(requested, [page |-> page, ok |-> FALSE, total_results |-> 0])
    /\ pc' = "idle"
    /\ fetch_status' = "aborted"
    /\ aff' = NoResponse
    /\ UNCHANGED <<original_collection, filtered_collection, page, copy_locals, calls>>

\* if page * self.max_results >= aff["total_results"]: break
FetchBreak ==
    /\ pc = "check"
    /\ LastPage(page, aff.total_results)
    /\ pc' = "idle"
    /\ fetch_status' = "done"
    /\ aff' = NoResponse
    /\ UNCHANGED <<original_collection, filtered_collection, page, requested,
                   copy_locals, calls>>

\* page += 1
FetchContinue ==
    /\ pc = "check"
    /\ ~LastPage(page, aff.total_results)
    /\ page' = page + 1
    /\ pc' = "request"
    /\ UNCHANGED <<original_collection, filtered_collection, aff, requested,
                   fetch_status, copy_locals, calls>>

-----------------------------------------------------------------------------
(* copy_data *)

\* The call: documents_to_insert = [] and the cursor of find()
CopyStart ==
    /\ pc = "idle"
    /\ calls < MaxCalls
    /\ calls' = calls + 1
    /\ pc' = "derive"
    /\ cursor' = 1
    /\ documents_to_insert' = <<>>
    /\ copy_status' = "running"
    /\ UNCHANGED <<original_collection, filtered_collection, fetch_locals>>

\* Variant of CopyDocument that inserts each derived document at once.
CopyDocumentEager ==
    /\ pc = "derive"
    /\ cursor <= Len(original_collection)
    /\ ~Raises(original_collection[cursor])
    /\ documents_to_insert' = <<>>
    /\ filtered_collection' =
           Append(filtered_collection, Normalize(original_collection[cursor]))
    /\ cursor' = cursor + 1
    /\ UNCHANGED <<original_collection, pc, copy_status, fetch_locals, calls>>

\* One pass of the loop body that reaches documents_to_insert.append
CopyDocument ==
    /\ pc = "derive"
    /\ cursor <= Len(original_collection)
    /\ ~Raises(original_collection[cursor])
    /\ documents_to_insert' =
           Append(documents_to_insert, Normalize(original_collection[cursor]))
    /\ cursor' = cursor + 1
    /\ UNCHANGED <<original_collection, filtered_collection, pc, copy_status,
                   fetch_locals, calls>>

\* One pass of the loop body that raises: the exception leaves copy_data
CopyRaise ==
    /\ pc = "derive"
    /\ cursor <= Len(original_collection)
    /\ Raises(original_collection[cursor])
    /\ pc' = "idle"
    /\ copy_status' = "raised"
    /\ documents_to_insert' = <<>>
    /\ UNCHANGED <<original_collection, filtered_collection, cursor, fetch_locals, calls>>

\* Variant of CopyInsertMany that overwrites the destination.
CopyInsertManyReplace ==
    /\ pc = "derive"
    /\ cursor > Len(original_collection)
    /\ documents_to_insert # <<>>
    /\ filtered_collection' = documents_to_insert
    /\ pc' = "idle"
    /\ copy_status' = "written"
    /\ documents_to_insert' = <<>>
    /\ UNCHANGED <<original_collection, cursor, fetch_locals, calls>>

\* if documents_to_insert: self.filtered_collection.insert_many(documents_to_insert)
CopyInsertMany ==
    /\ pc = "derive"
    /\ cursor > Len(original_collection)
    /\ documents_to_insert # <<>>
    /\ filtered_collection' = filtered_collection \o documents_to_insert
    /\ pc' = "idle"
    /\ copy_status' = "written"
    /\ documents_to_insert' = <<>>
    /\ UNCHANGED <<original_collection, cursor, fetch_locals, calls>>

\* else: nothing to copy
CopyNothing ==
    /\ pc = "derive"
    /\ cursor > Len(original_collection)
    /\ documents_to_insert = <<>>
    /\ pc' = "idle"
    /\ copy_status' = "empty"
    /\ UNCHANGED <<original_collection, filtered_collection, cursor,
                   documents_to_insert, fetch_locals, calls>>

-----------------------------------------------------------------------------
(* Specifications *)

Next ==
    \/ FetchStart
    \/ FetchPage
    \/ FetchFail
    \/ FetchBreak
    \/ FetchContinue
    \/ CopyStart
    \/ CopyDocument
    \/ CopyRaise
    \/ CopyInsertMany
    \/ CopyNothing

Spec == Init /\ [][Next]_vars

\* copy_data alone, over the staged documents of StagedDocs
NextCopy ==
    \/ CopyStart
    \/ CopyDocument
    \/ CopyRaise
    \/ CopyInsertMany
    \/ CopyNothing

SpecCopy == InitCopy /\ [][NextCopy]_vars

-----------------------------------------------------------------------------
(* Vocabulary of the properties, stated on the documents themselves *)

\* The document has an external_ids entry whose source is "scholar".
MentionsScholar(d) ==
    /\ "external_ids" \in DOMAIN d
    /\ \E i \in 1..Len(d.external_ids) :
          /\ "source" \in DOMAIN d.external_ids[i]
          /\ d.external_ids[i].source = "scholar"

\* The staged document is the source record d with keep_abstract = false added.
IsStagedFrom(staged, d) ==
    /\ "keep_abstract" \in DOMAIN staged
    /\ staged.keep_abstract = FALSE
    /\ DOMAIN staged = DOMAIN d \cup {"keep_abstract"}
    /\ \A k \in DOMAIN d \ {"keep_abstract"} : staged[k] = d[k]

Occurrences(q, P(_)) == Cardinality({i \in 1..Len(q) : P(q[i])})

\* While copy_data derives, documents_to_insert[i] was derived from
\* original_collection[i].
Derived == 1..Len(documents_to_insert)

-----------------------------------------------------------------------------
\* C1: no step of a fetch_data run removes or rewrites a staged record, and no
\* record a step inserts into the staging collection has an external_ids entry
\* whose source is "scholar".
C1_NoScholarStaged ==
    [][/\ Len(original_collection') >= Len(original_collection)
       /\ SubSeq(original_collection', 1, Len(original_collection)) = original_collection
       /\ \A i \in (Len(original_collection) + 1)..Len(original_collection') :
             ~MentionsScholar(original_collection'[i])]_vars

C1_Witness ==
    /\ pc = "check"
    /\ \E i \in 1..Len(aff.data) : MentionsScholar(aff.data[i])
    /\ \E i \in 1..Len(aff.data) : ~MentionsScholar(aff.data[i])
    /\ Len(original_collection) > 1

\* C2: a step that fetches a page successfully inserts, for every record of the
\* page's data without a "scholar" external id, exactly one staged record per
\* occurrence, carrying keep_abstract = false, and inserts nothing else.
C2_OneStagedPerSelected ==
    [][(pc = "request" /\ pc' = "check") =>
          /\ \A d \in SourceRecords :
                ~MentionsScholar(d) =>
                    Occurrences(original_collection', LAMBDA r : IsStagedFrom(r, d))
                      = Occurrences(original_collection, LAMBDA r : IsStagedFrom(r, d))
                        + Occurrences(aff'.data, LAMBDA r : r = d)
          /\ Len(original_collection') - Len(original_collection)
                = Occurrences(aff'.data, LAMBDA r : ~MentionsScholar(r))]_vars

C2_Witness ==
    /\ pc = "check"
    /\ aff.data = <<BareRecord, BareRecord>>
    /\ Occurrences(original_collection, LAMBDA r : IsStagedFrom(r, BareRecord)) = 3

\* C3: the requests of a run are for pages 1, 2, 3, ... in order; every request
\* but the last was answered with page * page_size < total_results; a run that
\* ends normally made at least one request and its last answer has
\* page * page_size >= total_results; with total_results = 250 in every answer
\* that is exactly 3 requests.
C3_PagesInOrderUntilBound ==
    /\ \A i \in 1..Len(requested) : requested[i].page = i
    /\ \A i \in 1..(Len(requested) - 1) :
          requested[i].ok /\ i * 100 < requested[i].total_results
    /\ pc = "request" => page = Len(requested) + 1
    /\ fetch_status \in {"done", "aborted"} => Len(requested) >= 1 /\ pc # "request"
    /\ fetch_status = "done" =>
          /\ requested[Len(requested)].ok
          /\ Len(requested) * 100 >= requested[Len(requested)].total_results
          /\ (\A i \in 1..Len(requested) : requested[i].total_results = 250)
                => Len(requested) = 3

C3_Witness ==
    /\ fetch_status = "done"
    /\ Len(requested) = 3
    /\ \A i \in 1..3 : requested[i].total_results = 250

\* C4: a request that fails is the last request of the run: the step that makes
\* it leaves the staging collection as it was and ends the run, and nothing is
\* requested or removed from the staging collection afterwards.
C4_AbortOnFailure ==
    /\ [](\A i \in 1..(Len(requested) - 1) : requested[i].ok)
    /\ [][(Len(requested') > Len(requested) /\ ~requested'[Len(requested')].ok) =>
             /\ requested' = Append(requested, [page |-> page, ok |-> FALSE,
                                                total_results |-> 0])
             /\ original_collection' = original_collection
             /\ pc' = "idle"
             /\ fetch_status' = "aborted"]_vars
    /\ [][fetch_status = "aborted" =>
             /\ requested' = requested
             /\ fetch_status' = "aborted"
             /\ original_collection' = original_collection]_vars

C4_Witness ==
    /\ fetch_status = "aborted"
    /\ Len(requested) = 3
    /\ Occurrences(original_collection, LAMBDA r : IsStagedFrom(r, Product)) = 2
    /\ Occurrences(original_collection, LAMBDA r : IsStagedFrom(r, BareRecord)) = 2

\* C5: copy_data never writes the staging collection and only appends to the
\* destination; after k completed runs over a staging collection of n records
\* the (initially empty) destination holds k*n records, the j-th block of n
\* being the normalized records of the staged records in order, so two runs
\* leave every normalized record twice and a run over an empty staging
\* collection writes nothing.
C5_AppendsOnePerStaged ==
    /\ [][/\ original_collection' = original_collection
          /\ Len(filtered_collection') >= Len(filtered_collection)
          /\ SubSeq(filtered_collection', 1, Len(filtered_collection))
                = filtered_collection]_vars
    /\ []((pc = "idle" /\ copy_status \in {"written", "empty"}) =>
            /\ Len(filtered_collection) = calls * Len(original_collection)
            /\ copy_status = "empty" <=> original_collection = <<>>
            /\ \A j \in 0..(calls - 1) : \A i \in 1..Len(original_collection) :
                  filtered_collection[j * Len(original_collection) + i]
                      = Normalize(original_collection[i]))

C5_Witness ==
    /\ pc = "idle"
    /\ copy_status = "written"
    /\ calls = 2
    /\ Len(original_collection) = 2
    /\ Len(filtered_collection) = 4
    /\ filtered_collection[1] = filtered_collection[3]
    /\ filtered_collection[1] # filtered_collection[2]

\* Every nested structure the document has is of the shape the API gives it;
\* structures may be absent.
WellShaped(d) ==
    /\ "source" \in DOMAIN d =>
          /\ IsDict(d.source)
          /\ "publisher" \in DOMAIN d.source => IsDict(d.source.publisher)

\* C6: copy_data never stops on a staged record because a nested structure is
\* absent (source, source.names, source.publisher, titles, authors,
\* bibliographic_info, external_ids) or titles is empty.
C6_NeverFailsOnAbsence ==
    ~(/\ pc = "idle"
      /\ copy_status = "raised"
      /\ WellShaped(original_collection[cursor]))

\* C7: the normalized abstract is "" when the staged record's keep_abstract is
\* false, and otherwise (flag true or absent) the staged record's abstract, ""
\* when it has none; so a record staged by fetch_data gets the abstract "".
C7_AbstractRule ==
    /\ \A i \in Derived :
          LET d == original_collection[i]
              flag_off == "keep_abstract" \in DOMAIN d /\ d.keep_abstract = FALSE
          IN  documents_to_insert[i].abstract =
                  IF flag_off THEN ""
                  ELSE IF "abstract" \in DOMAIN d THEN d.abstract ELSE ""
    /\ \A i \in Derived :
          (\E r \in SourceRecords : IsStagedFrom(original_collection[i], r))
              => documents_to_insert[i].abstract = ""

C7_Witness ==
    /\ pc = "derive"
    /\ fetch_status = "done"
    /\ Len(documents_to_insert) = 2
    /\ original_collection[1] = KeptProduct
    /\ documents_to_insert[1].abstract = "An abstract"
    /\ IsStagedFrom(original_collection[2], Product)
    /\ documents_to_insert[2].abstract = ""

\* source.names of a staged document, empty when absent
NamesOf(d) ==
    IF "source" \in DOMAIN d /\ "names" \in DOMAIN d.source THEN d.source.names ELSE <<>>

Least(S) == CHOOSE k \in S : \A m \in S : k <= m

\* C8 as stated: the normalized journal is the name of the first entry of
\* source.names whose name is present and non-empty, "" when there is none.
C8_FirstNonEmptyName ==
    \A i \in Derived :
        LET names == NamesOf(original_collection[i])
            named == {k \in 1..Len(names) :
                         "name" \in DOMAIN names[k] /\ names[k].name # ""}
        IN  documents_to_insert[i].journal =
                IF named = {} THEN "" ELSE names[Least(named)].name

\* C8 amended: the normalized journal is the name of the first entry of
\* source.names that has a name field, empty or not; "" when source.names is
\* absent or no entry has a name field.
C8_FirstNameField ==
    \A i \in Derived :
        LET names == NamesOf(original_collection[i])
            named == {k \in 1..Len(names) : "name" \in DOMAIN names[k]}
        IN  documents_to_insert[i].journal =
                IF named = {} THEN "" ELSE names[Least(named)].name

C8_Witness ==
    /\ Len(documents_to_insert) = 1
    /\ NamesOf(original_collection[1]) = <<[name |-> ""], [name |-> "Nature"]>>
    /\ documents_to_insert[1].journal = ""

\* The formatted names the rule of C9 gives for the author entries of the model.
ExpectedName(entry) ==
    IF "full_name" \notin DOMAIN entry THEN <<>>
    ELSE CASE entry.full_name = JaneAnnDoe -> <<"J", "A", ",", " ", "D", "o", "e">>
           [] entry.full_name = JohnSmith  -> <<"J", ",", " ", "S", "m", "i", "t", "h">>
           [] entry.full_name = AnnLee     -> <<"A", ",", " ", "L", "e", "e">>
           [] entry.full_name = SpacedName -> <<"A", "B", ",", " ", "C", "y">>
           [] entry.full_name = PaddedDoe  -> <<" ", "D", "o", "e", " ">>
           [] entry.full_name = Doe        -> <<"D", "o", "e">>
           [] entry.full_name = <<>>       -> <<>>

AndSep == <<" ", "a", "n", "d", " ">>

JaneJohnAnn ==
    <<"J", "A", ",", " ", "D", "o", "e", " ", "a", "n", "d", " ",
      "J", ",", " ", "S", "m", "i", "t", "h", " ", "a", "n", "d", " ",
      "A", ",", " ", "L", "e", "e">>

\* C9: the normalized author is made of the first 3 entries of authors only, in
\* order, each formatted by the rule, joined with " and "; "" for no authors.
C9_AuthorRule ==
    \A i \in Derived :
        LET d == original_collection[i]
            a == IF "authors" \in DOMAIN d THEN d.authors ELSE <<>>
            author == documents_to_insert[i].author
        IN  /\ Len(a) = 0 => author = <<>>
            /\ Len(a) = 1 => author = ExpectedName(a[1])
            /\ Len(a) = 2 => author = ExpectedName(a[1]) \o AndSep \o ExpectedName(a[2])
            /\ Len(a) >= 3 => author = ExpectedName(a[1]) \o AndSep \o ExpectedName(a[2])
                                           \o AndSep \o ExpectedName(a[3])
            /\ (/\ Len(a) >= 3
                /\ a[1] = [full_name |-> JaneAnnDoe]
                /\ a[2] = [full_name |-> JohnSmith]
                /\ a[3] = [full_name |-> AnnLee]) => author = JaneJohnAnn

C9_Witness ==
    /\ Len(documents_to_insert) = 1
    /\ "authors" \in DOMAIN original_collection[1]
    /\ Len(original_collection[1].authors) = 4
    /\ original_collection[1].authors[4] = [full_name |-> SpacedName]
    /\ documents_to_insert[1].author = JaneJohnAnn

\* C10: the destination collection changes only in the last step of a run of
\* copy_data, after the cursor has passed every staged record; a step that
\* derives a record, and the step in which the derivation raises, leave the
\* destination as it was.
C10_AllOrNothing ==
    [][/\ filtered_collection' # filtered_collection =>
             /\ pc = "derive"
             /\ cursor = Len(original_collection) + 1
             /\ Len(documents_to_insert) = Len(original_collection)
             /\ pc' = "idle"
             /\ copy_status' = "written"
       /\ copy_status' = "raised" => filtered_collection' = filtered_collection]_vars

C10_Witness ==
    /\ pc = "idle"
    /\ copy_status = "raised"
    /\ cursor = 3
    /\ Len(filtered_collection) = 1

====
